---- MODULE Spec2Model ----
(***************************************************************************)
(* Model of generate_security_report.py: parse_sarif_file,                 *)
(* generate_ai_report, generate_ai_analysis and main.                      *)
(*                                                                         *)
(* A decoded JSON value is a pair <<type, payload>>: the Python type the   *)
(* decoder produces ("str", "num", "null", "list", "obj") and the value.   *)
(* A raised exception is the pair <<"raise", str(e)>> and is propagated by *)
(* every helper, as Python unwinds to the handler; <<"ok", value>> is a    *)
(* value computed without one.                                             *)
(* The Korean string literals of the source are written in English.        *)
(***************************************************************************)
EXTENDS Integers, Sequences, FiniteSets, TLC

VARIABLES fsFile, iacFile, outWritable, outFile, pc, trivy_fs_results,
          trivy_iac_results, report_content, console, exit_status

vars == <<fsFile, iacFile, outWritable, outFile, pc, trivy_fs_results,
          trivy_iac_results, report_content, console, exit_status>>

(***************************************************************************)
(* Bounds of the model.                                                    *)
(***************************************************************************)
\* Most result elements in a document of the walk family.
MaxResults == 3
\* Most findings of one severity in a document of the pipeline family.
MaxCount == 2
\* How far a tier's finding count may exceed the largest cap (8) or the
\* other caps (5) in a document of the truncation family.
MaxOver == 1

(***************************************************************************)
(* Decoded JSON values and the Python operations the parser applies.       *)
(***************************************************************************)
Str(s) == <<"str", s>>
Num(n) == <<"num", n>>
Null == <<"null", 0>>
List(l) == <<"list", l>>
Obj(o) == <<"obj", o>>
EmptyObj == Obj(<<>>)
Raise(detail) == <<"raise", detail>>
Ok(value) == <<"ok", value>>
IsRaise(x) == x[1] = "raise"

\* type(x).__name__
TypeName(x) ==
    CASE x[1] = "str" -> "str"
      [] x[1] = "num" -> "int"
      [] x[1] = "null" -> "NoneType"
      [] x[1] = "list" -> "list"
      [] x[1] = "obj" -> "dict"

\* d.get(k, default): only a dict has the method.
Get(d, k, default) ==
    IF IsRaise(d) THEN d
    ELSE IF d[1] # "obj"
         THEN Raise("'" \o TypeName(d) \o "' object has no attribute 'get'")
    ELSE IF k \in DOMAIN d[2] THEN d[2][k]
    ELSE default

\* x[0]
Item0(x) ==
    IF IsRaise(x) THEN x
    ELSE CASE x[1] = "list" -> IF Len(x[2]) = 0
                              THEN Raise("list index out of range")
                              ELSE x[2][1]
           [] x[1] = "str" -> IF Len(x[2]) = 0
                             THEN Raise("string index out of range")
                             ELSE Str(SubSeq(x[2], 1, 1))
           [] x[1] = "obj" -> Raise("0")
           [] OTHER -> Raise("'" \o TypeName(x) \o "' object is not subscriptable")

RECURSIVE KeySeq(_)
KeySeq(keys) ==
    IF keys = {} THEN <<>>
    ELSE LET k == CHOOSE k \in keys : TRUE
         IN <<Str(k)>> \o KeySeq(keys \ {k})

\* The items `for item in x` visits: the elements of a list, the keys of a
\* dict, the characters of a str; anything else is not iterable.
Iter(x) ==
    IF IsRaise(x) THEN x
    ELSE CASE x[1] = "list" -> List(x[2])
           [] x[1] = "obj" -> List(KeySeq(DOMAIN x[2]))
           [] x[1] = "str" -> List([i \in 1..Len(x[2]) |-> Str(SubSeq(x[2], i, i))])
           [] OTHER -> Raise("'" \o TypeName(x) \o "' object is not iterable")

(***************************************************************************)
(* parse_sarif_file                                                        *)
(***************************************************************************)
FileNotFound == "file not found"
ParseFailed == "SARIF file parse failed: "
NoDescription == "no description"
Unknown == "unknown"

SeverityKeys == {"error", "warning", "note", "none"}
InitialCounts == [k \in SeverityKeys |-> 0]

\* severity_counts[severity] += 1
IncrementCount(counts, severity) ==
    IF IsRaise(severity) THEN severity
    ELSE CASE severity[1] = "str" ->
                IF severity[2] \in DOMAIN counts
                THEN Ok([counts EXCEPT ![severity[2]] = @ + 1])
                ELSE Raise("'" \o severity[2] \o "'")
           [] severity[1] = "num" -> Raise(ToString(severity[2]))
           [] severity[1] = "null" -> Raise("None")
           [] OTHER -> Raise("unhashable type: '" \o TypeName(severity) \o "'")

\* The first exception raised among the values, in evaluation order.
FirstRaise(values) ==
    LET bad == {i \in 1..Len(values) : IsRaise(values[i])}
    IN IF bad = {} THEN Ok(0)
       ELSE values[CHOOSE i \in bad : \A j \in bad : i <= j]

\* AddResult putting the new finding in front of the earlier ones.
AddResultInFront(acc, result) ==
    LET severity == Get(result, "level", Str("none"))
        counted == IncrementCount(acc[2].severity_counts, severity)
        message == Get(Get(result, "message", EmptyObj), "text", Str(NoDescription))
        location == Get(Get(Get(Item0(Get(result, "locations", List(<<EmptyObj>>))),
                                "physicalLocation", EmptyObj),
                            "artifactLocation", EmptyObj),
                        "uri", Str(Unknown))
        rule_id == Get(result, "ruleId", Str(Unknown))
        raised == FirstRaise(<<counted, message, location, rule_id>>)
    IN IF IsRaise(raised) THEN raised
       ELSE Ok([results |-> <<[message |-> message, severity |-> severity,
                               location |-> location, rule_id |-> rule_id]>>
                            \o acc[2].results,
                severity_counts |-> counted[2]])

\* The body of the inner loop: one result element.
AddResult(acc, result) ==
    LET severity == Get(result, "level", Str("none"))
        counted == IncrementCount(acc[2].severity_counts, severity)
        message == Get(Get(result, "message", EmptyObj), "text", Str(NoDescription))
        location == Get(Get(Get(Item0(Get(result, "locations", List(<<EmptyObj>>))),
                                "physicalLocation", EmptyObj),
                            "artifactLocation", EmptyObj),
                        "uri", Str(Unknown))
        rule_id == Get(result, "ruleId", Str(Unknown))
        raised == FirstRaise(<<counted, message, location, rule_id>>)
    IN IF IsRaise(raised) THEN raised
       ELSE Ok([results |-> Append(acc[2].results,
                                   [message |-> message, severity |-> severity,
                                    location |-> location, rule_id |-> rule_id]),
                severity_counts |-> counted[2]])

RECURSIVE WalkResults(_, _, _)
WalkResults(items, i, acc) ==
    IF IsRaise(acc) \/ i > Len(items) THEN acc
    ELSE WalkResults(items, i + 1, AddResult(acc, items[i]))

\* The body of the outer loop: one run.
AddRun(acc, run) ==
    LET items == Iter(Get(run, "results", List(<<>>)))
    IN IF IsRaise(items) THEN items ELSE WalkResults(items[2], 1, acc)

RECURSIVE WalkRuns(_, _, _)
WalkRuns(runs, i, acc) ==
    IF IsRaise(acc) \/ i > Len(runs) THEN acc
    ELSE WalkRuns(runs, i + 1, AddRun(acc, runs[i]))

\* The try block: open, json.load and the two loops.
LoadAndWalk(file) ==
    CASE file.kind = "unreadable" -> Raise("[Errno 13] Permission denied")
      [] file.kind = "undecodable" -> Raise("Expecting value: line 1 column 1 (char 0)")
      [] OTHER ->
           LET runs == Iter(Get(file.data, "runs", List(<<>>)))
           IN IF IsRaise(runs) THEN runs
              ELSE WalkRuns(runs[2], 1,
                            Ok([results |-> <<>>,
                                severity_counts |-> InitialCounts]))

parse_sarif_file(file) ==
    IF file.kind = "absent" THEN [error |-> FileNotFound]
    ELSE LET walked == LoadAndWalk(file)
         IN IF IsRaise(walked) THEN [error |-> ParseFailed \o walked[2]]
            ELSE [total_vulnerabilities |-> Len(walked[2].results),
                  severity_distribution |-> walked[2].severity_counts,
                  all_vulnerabilities |-> walked[2].results]

(***************************************************************************)
(* generate_ai_analysis.  The text is modelled line by line: each          *)
(* `analysis += ...` of the source appends one record.  A line of a        *)
(* category section carries the category (cat) and, inside a severity      *)
(* sub-list, the tier (sev) of the block of the source that appends it.    *)
(***************************************************************************)
FsHighCap == 5
FsMediumCap == 5
FsLowCap == 3
IacHighCap == 8
IacMediumCap == 5
IacLowCap == 5

Caps(cat) ==
    IF cat = "fs"
    THEN [high |-> FsHighCap, medium |-> FsMediumCap, low |-> FsLowCap]
    ELSE [high |-> IacHighCap, medium |-> IacMediumCap, low |-> IacLowCap]

\* "error" not in result
IsSuccess(result) == "error" \notin DOMAIN result

\* result.get(key, default) on a result dictionary
PyGet(dict, key, default) == IF key \in DOMAIN dict THEN dict[key] ELSE default

\* A value usable as a dictionary key.
Hashable(x) == x[1] \notin {"list", "obj"}

\* RiskLines testing the MEDIUM count before the HIGH count.
RiskLinesMediumFirst(high_count, medium_count) ==
    IF high_count = 0 /\ medium_count = 0
    THEN <<[kind |-> "risk", tier |-> "HEALTHY", n |-> 0],
           [kind |-> "risk_text", tier |-> "HEALTHY", n |-> 0]>>
    ELSE IF medium_count > 0
    THEN <<[kind |-> "risk", tier |-> "CAUTION", n |-> medium_count],
           [kind |-> "risk_text", tier |-> "CAUTION", n |-> medium_count]>>
    ELSE <<[kind |-> "risk", tier |-> "DANGER", n |-> high_count],
           [kind |-> "risk_text", tier |-> "DANGER", n |-> high_count]>>

\* The overall risk heading and its sentence.
RiskLines(high_count, medium_count) ==
    IF high_count = 0 /\ medium_count = 0
    THEN <<[kind |-> "risk", tier |-> "HEALTHY", n |-> 0],
           [kind |-> "risk_text", tier |-> "HEALTHY", n |-> 0]>>
    ELSE IF high_count > 0
    THEN <<[kind |-> "risk", tier |-> "DANGER", n |-> high_count],
           [kind |-> "risk_text", tier |-> "DANGER", n |-> high_count]>>
    ELSE IF medium_count > 0
    THEN <<[kind |-> "risk", tier |-> "CAUTION", n |-> medium_count],
           [kind |-> "risk_text", tier |-> "CAUTION", n |-> medium_count]>>
    ELSE <<>>

\* file_vulns: the keys of the grouping in insertion order, or the TypeError
\* of `file_path not in file_vulns` for a location that cannot be hashed.
RECURSIVE GroupKeys(_, _, _)
GroupKeys(vulns, i, keys) ==
    IF i > Len(vulns) THEN Ok(keys)
    ELSE LET file_path == vulns[i].location
         IN IF ~Hashable(file_path)
            THEN Raise("unhashable type: '" \o TypeName(file_path) \o "'")
            ELSE GroupKeys(vulns, i + 1,
                           IF \E j \in 1..Len(keys) : keys[j] = file_path
                           THEN keys ELSE Append(keys, file_path))

\* [v for v in all_vulnerabilities if v['severity'] == level]
BySeverity(vulns, level) == SelectSeq(vulns, LAMBDA v : v.severity = Str(level))

\* vulns[:cap]
FirstN(vulns, cap) == SubSeq(vulns, 1, IF Len(vulns) < cap THEN Len(vulns) ELSE cap)

\* TierLines adding the summary line already at the cap (>= for >).
TierLinesSummaryAtCap(cat, sev, vulns, cap) ==
    IF Len(vulns) = 0 THEN <<>>
    ELSE <<[kind |-> "tier", cat |-> cat, sev |-> sev, n |-> Len(vulns)]>>
         \o [i \in 1..Len(FirstN(vulns, cap)) |->
               [kind |-> "entry", cat |-> cat, sev |-> sev,
                rule_id |-> FirstN(vulns, cap)[i].rule_id,
                message |-> FirstN(vulns, cap)[i].message]]
         \o (IF Len(vulns) >= cap
             THEN <<[kind |-> "more", cat |-> cat, sev |-> sev,
                     n |-> Len(vulns) - cap]>>
             ELSE <<>>)
         \o <<[kind |-> "blank", cat |-> cat, sev |-> sev]>>

\* One severity sub-list of a category section.
TierLines(cat, sev, vulns, cap) ==
    IF Len(vulns) = 0 THEN <<>>
    ELSE <<[kind |-> "tier", cat |-> cat, sev |-> sev, n |-> Len(vulns)]>>
         \o [i \in 1..Len(FirstN(vulns, cap)) |->
               [kind |-> "entry", cat |-> cat, sev |-> sev,
                rule_id |-> FirstN(vulns, cap)[i].rule_id,
                message |-> FirstN(vulns, cap)[i].message]]
         \o (IF Len(vulns) > cap
             THEN <<[kind |-> "more", cat |-> cat, sev |-> sev,
                     n |-> Len(vulns) - cap]>>
             ELSE <<>>)
         \o <<[kind |-> "blank", cat |-> cat, sev |-> sev]>>

\* The recommendations closing a category section: 3 lines after the
\* heading for the filesystem scan, 4 for the IaC scan.
AdviceLines(cat) ==
    [i \in 1..(IF cat = "fs" THEN 4 ELSE 5) |->
       [kind |-> "advice", cat |-> cat, n |-> i - 1]]

\* The section of one scan, or the exception its grouping raises.
CategoryLines(cat, result) ==
    IF ~(IsSuccess(result) /\ PyGet(result, "total_vulnerabilities", 0) > 0)
    THEN Ok(<<>>)
    ELSE LET vulns == PyGet(result, "all_vulnerabilities", <<>>)
             file_vulns == GroupKeys(vulns, 1, <<>>)
             caps == Caps(cat)
         IN IF IsRaise(file_vulns) THEN file_vulns
            ELSE Ok(
                   <<[kind |-> "section", cat |-> cat,
                      n |-> PyGet(result, "total_vulnerabilities", 0)]>>
                   \o (IF Len(file_vulns[2]) > 0
                       THEN <<[kind |-> "lead", cat |-> cat,
                               file |-> file_vulns[2][1]]>>
                       ELSE <<>>)
                   \o TierLines(cat, "high", BySeverity(vulns, "error"), caps.high)
                   \o TierLines(cat, "medium", BySeverity(vulns, "warning"), caps.medium)
                   \o TierLines(cat, "low", BySeverity(vulns, "note"), caps.low)
                   \o AdviceLines(cat))

\* The general recommendations closing the analysis.
GeneralLines(high_count, medium_count) ==
    <<[kind |-> "general", n |-> 0]>>
    \o (IF high_count > 0 THEN <<[kind |-> "general", n |-> 1]>> ELSE <<>>)
    \o (IF medium_count > 0 THEN <<[kind |-> "general", n |-> 2]>> ELSE <<>>)
    \o <<[kind |-> "general", n |-> 3], [kind |-> "general", n |-> 4],
         [kind |-> "general", n |-> 5]>>

generate_ai_analysis(high_count, medium_count, low_count, trivy_fs, trivy_iac) ==
    LET fs == CategoryLines("fs", trivy_fs)
        iac == CategoryLines("iac", trivy_iac)
    IN IF IsRaise(fs) THEN fs
       ELSE IF IsRaise(iac) THEN iac
       ELSE Ok(RiskLines(high_count, medium_count) \o <<[kind |-> "rule"]>>
               \o fs[2] \o iac[2] \o GeneralLines(high_count, medium_count))

(***************************************************************************)
(* generate_ai_report.  The report is a record of its blocks; the metadata *)
(* block (time stamp and the three environment strings) depends on nothing *)
(* the model holds and is left out.                                        *)
(***************************************************************************)
\* What one scan adds to the four totals.
Contribution(result) ==
    IF IsSuccess(result)
    THEN LET severity_dist == PyGet(result, "severity_distribution", <<>>)
         IN [vulns |-> PyGet(result, "total_vulnerabilities", 0),
             high |-> PyGet(severity_dist, "error", 0),
             medium |-> PyGet(severity_dist, "warning", 0),
             low |-> PyGet(severity_dist, "note", 0)]
    ELSE [vulns |-> 0, high |-> 0, medium |-> 0, low |-> 0]

\* StatusLines reporting a failed scan as a completed scan without findings.
StatusLinesFailureAsEmpty(result) ==
    LET severity_dist == PyGet(result, "severity_distribution", <<>>)
    IN <<[kind |-> "completed"],
         [kind |-> "found",
          vulns |-> PyGet(result, "total_vulnerabilities", 0),
          high |-> PyGet(severity_dist, "error", 0),
          medium |-> PyGet(severity_dist, "warning", 0),
          low |-> PyGet(severity_dist, "note", 0)]>>

\* The status lines of one scan tool.
StatusLines(result) ==
    IF ~IsSuccess(result)
    THEN <<[kind |-> "failed", reason |-> result["error"]]>>
    ELSE LET severity_dist == PyGet(result, "severity_distribution", <<>>)
         IN <<[kind |-> "completed"],
              [kind |-> "found",
               vulns |-> PyGet(result, "total_vulnerabilities", 0),
               high |-> PyGet(severity_dist, "error", 0),
               medium |-> PyGet(severity_dist, "warning", 0),
               low |-> PyGet(severity_dist, "note", 0)]>>

\* OverallStatus tolerating one HIGH finding.
OverallStatusTolerant(total_high) == IF total_high <= 1 THEN "PASS" ELSE "FAIL"

\* overall_status
OverallStatus(total_high) == IF total_high = 0 THEN "PASS" ELSE "FAIL"

generate_ai_report(fs_results, iac_results) ==
    LET fs == Contribution(fs_results)
        iac == Contribution(iac_results)
        total_vulns == fs.vulns + iac.vulns
        total_high == fs.high + iac.high
        total_medium == fs.medium + iac.medium
        total_low == fs.low + iac.low
        ai_analysis == generate_ai_analysis(total_high, total_medium, total_low,
                                            fs_results, iac_results)
    IN IF IsRaise(ai_analysis) THEN ai_analysis
       ELSE <<"report",
            [total_vulns |-> total_vulns, total_high |-> total_high,
             total_medium |-> total_medium, total_low |-> total_low,
             fs_status |-> StatusLines(fs_results),
             iac_status |-> StatusLines(iac_results),
             ai_analysis |-> ai_analysis[2],
             overall_status |-> OverallStatus(total_high)]>>

(***************************************************************************)
(* main, one action per statement group.                                   *)
(***************************************************************************)
OutputFile == "trivy-security-report.md"
NoValue == <<"none", 0>>

\* print(...) at the start of main
Start ==
    /\ pc = "start"
    /\ console' = Append(console, [kind |-> "progress"])
    /\ pc' = "parse_fs"
    /\ UNCHANGED <<fsFile, iacFile, outWritable, outFile, trivy_fs_results,
                   trivy_iac_results, report_content, exit_status>>

\* trivy_fs_results = parse_sarif_file("trivy-results.sarif")
ParseFs ==
    /\ pc = "parse_fs"
    /\ trivy_fs_results' = parse_sarif_file(fsFile)
    /\ pc' = "parse_iac"
    /\ UNCHANGED <<fsFile, iacFile, outWritable, outFile, trivy_iac_results,
                   report_content, console, exit_status>>

\* trivy_iac_results = parse_sarif_file("trivy-iac-results.sarif")
ParseIac ==
    /\ pc = "parse_iac"
    /\ trivy_iac_results' = parse_sarif_file(iacFile)
    /\ pc' = "report"
    /\ UNCHANGED <<fsFile, iacFile, outWritable, outFile, trivy_fs_results,
                   report_content, console, exit_status>>

\* report_content = generate_ai_report(...); an exception leaves main and
\* ends the process with a traceback and a failure status.
GenerateReport ==
    /\ pc = "report"
    /\ LET made == generate_ai_report(trivy_fs_results, trivy_iac_results)
       IN IF IsRaise(made)
          THEN /\ pc' = "crashed"
               /\ exit_status' = "failure"
               /\ console' = Append(console, [kind |-> "traceback", detail |-> made[2]])
               /\ UNCHANGED report_content
          ELSE /\ pc' = "write"
               /\ report_content' = made
               /\ UNCHANGED <<exit_status, console>>
    /\ UNCHANGED <<fsFile, iacFile, outWritable, outFile, trivy_fs_results,
                   trivy_iac_results>>

\* with open(output_file, 'w') as f: f.write(report_content)
WriteReport ==
    /\ pc = "write"
    /\ IF outWritable
       THEN /\ outFile' = report_content
            /\ pc' = "summary"
            /\ UNCHANGED <<exit_status, console>>
       ELSE /\ pc' = "crashed"
            /\ exit_status' = "failure"
            /\ console' = Append(console, [kind |-> "traceback",
                                           detail |-> "[Errno 13] Permission denied"])
            /\ UNCHANGED outFile
    /\ UNCHANGED <<fsFile, iacFile, outWritable, trivy_fs_results,
                   trivy_iac_results, report_content>>

\* total_vulns of main
MainTotal(fs_results, iac_results) ==
    (IF IsSuccess(fs_results) THEN PyGet(fs_results, "total_vulnerabilities", 0) ELSE 0)
    + (IF IsSuccess(iac_results) THEN PyGet(iac_results, "total_vulnerabilities", 0) ELSE 0)

\* The statistics and the three closing prints; main returns.
PrintSummary ==
    /\ pc = "summary"
    /\ LET total_vulns == MainTotal(trivy_fs_results, trivy_iac_results)
       IN console' = console \o
            <<[kind |-> "completed", file |-> OutputFile],
              [kind |-> "total", n |-> total_vulns],
              [kind |-> IF total_vulns = 0 THEN "clean" ELSE "review"]>>
    /\ pc' = "done"
    /\ exit_status' = "success"
    /\ UNCHANGED <<fsFile, iacFile, outWritable, outFile, trivy_fs_results,
                   trivy_iac_results, report_content>>

Next ==
    \/ Start
    \/ ParseFs
    \/ ParseIac
    \/ GenerateReport
    \/ WriteReport
    \/ PrintSummary

(***************************************************************************)
(* The documents main may find on disk.                                    *)
(***************************************************************************)
Absent == [kind |-> "absent", data |-> Null]
Unreadable == [kind |-> "unreadable", data |-> Null]
Undecodable == [kind |-> "undecodable", data |-> Null]
Json(data) == [kind |-> "json", data |-> data]

\* A key left out of an object.
Missing == <<"missing", 0>>

\* The object holding the fields that are not Missing.
MakeObj(fields) ==
    Obj([k \in {k \in DOMAIN fields : fields[k] # Missing} |-> fields[k]])

Location(uri) ==
    Obj([physicalLocation |-> Obj([artifactLocation |-> MakeObj([uri |-> uri])])])

\* One run holding the results, and the document holding the runs.
Run(results) == Obj([results |-> List(results)])
Document(runs) == Obj([runs |-> List(runs)])

\* The i-th result of a document: its rule, message and file are named
\* after its position, its level is given (or Missing).
Result(i, level) ==
    MakeObj([level |-> level,
             ruleId |-> Str("R" \o ToString(i)),
             message |-> Obj([text |-> Str("M" \o ToString(i))]),
             locations |-> List(<<Location(Str("f" \o ToString(i % 2)))>>)])

Results(levels) == [i \in 1..Len(levels) |-> Result(i, levels[i])]

\* Walk family: up to MaxResults results of any level, known or not, split
\* over two runs.
WalkLevels ==
    {Missing, Str("error"), Str("warning"), Str("note"), Str("none"), Str("critical")}

WalkDocs ==
    {Document(<<Run(SubSeq(Results(levels), 1, split)),
                Run(SubSeq(Results(levels), split + 1, Len(levels)))>>) :
       <<levels, split>> \in
         UNION {[1..n -> WalkLevels] \X (0..n) : n \in 0..MaxResults}}

\* Field family: one result, every field absent, well formed or ill formed.
LevelOptions ==
    WalkLevels \cup {Null, List(<<Str("error")>>)}
MessageOptions ==
    {Missing, Obj([text |-> Str("M")]), EmptyObj, Str("M"), Null}
RuleIdOptions ==
    {Missing, Str("R"), Num(7)}
LocationsOptions ==
    {Missing, List(<<>>), List(<<EmptyObj>>),
     List(<<Obj([physicalLocation |-> EmptyObj])>>),
     List(<<Obj([physicalLocation |-> Obj([artifactLocation |-> EmptyObj])])>>),
     List(<<Location(Str("f"))>>), List(<<Location(Null)>>),
     List(<<Location(EmptyObj)>>), Str("f")}

FieldDocs ==
    {Document(<<Run(<<MakeObj([level |-> l, message |-> m, ruleId |-> r,
                              locations |-> loc])>>)>>) :
       <<l, m, r, loc>> \in
         LevelOptions \X MessageOptions \X RuleIdOptions \X LocationsOptions}

\* Shape family: a collection absent or of another type.
ShapeDocs ==
    {EmptyObj, List(<<>>), Null, Str("x")}
    \cup {Obj([runs |-> r]) :
            r \in {EmptyObj, Str(""), Str("x"), Num(5), Null,
                   Obj([a |-> Num(1)]), List(<<EmptyObj>>),
                   List(<<Str("x")>>), List(<<Null>>)}}
    \cup {Document(<<Obj([results |-> r])>>) :
            r \in {EmptyObj, Str(""), Num(5), Null, List(<<Str("x")>>),
                   List(<<Null>>), List(<<EmptyObj>>)}}

ParseFiles ==
    {Absent, Unreadable, Undecodable}
    \cup {Json(d) : d \in WalkDocs \cup FieldDocs \cup ShapeDocs}

\* Pipeline family: one run with 0..MaxCount findings of each of the three
\* narrated severities and at most one "none", lowest severity first.
Repeat(level, n) == [i \in 1..n |-> level]

CountDoc(nE, nW, nN, nO) ==
    Document(<<Run(Results(Repeat(Str("none"), nO) \o Repeat(Str("note"), nN)
                           \o Repeat(Str("warning"), nW)
                           \o Repeat(Str("error"), nE)))>>)

PipeFiles ==
    {Absent, Unreadable, Undecodable,
     Json(EmptyObj),
     Json(Document(<<Run(<<Result(1, Str("error")), Result(2, Str("critical"))>>)>>)),
     Json(Document(<<Run(<<MakeObj([level |-> Str("warning"),
                                   locations |-> List(<<>>)])>>)>>)),
     Json(Document(<<Run(<<MakeObj([level |-> Str("note"),
                                   locations |-> List(<<Location(EmptyObj)>>)])>>)>>))}
    \cup {Json(CountDoc(nE, nW, nN, nO)) :
            <<nE, nW, nN, nO>> \in
              (0..MaxCount) \X (0..MaxCount) \X (0..MaxCount) \X (0..1)}

\* Truncation family: one run with up to cap + MaxOver findings of each
\* narrated severity, the severities in blocks or taking turns.
RECURSIVE Mixed(_, _, _, _, _)
Mixed(nE, nW, nN, nO, turn) ==
    IF nE + nW + nN + nO = 0 THEN <<>>
    ELSE CASE turn = 0 -> IF nE > 0
                          THEN <<Str("error")>> \o Mixed(nE - 1, nW, nN, nO, 1)
                          ELSE Mixed(nE, nW, nN, nO, 1)
           [] turn = 1 -> IF nN > 0
                          THEN <<Str("note")>> \o Mixed(nE, nW, nN - 1, nO, 2)
                          ELSE Mixed(nE, nW, nN, nO, 2)
           [] turn = 2 -> IF nO > 0
                          THEN <<Str("none")>> \o Mixed(nE, nW, nN, nO - 1, 3)
                          ELSE Mixed(nE, nW, nN, nO, 3)
           [] OTHER -> IF nW > 0
                       THEN <<Str("warning")>> \o Mixed(nE, nW - 1, nN, nO, 0)
                       ELSE Mixed(nE, nW, nN, nO, 0)

LongDocs ==
    {CountDoc(nE, nW, nN, nO) :
       <<nE, nW, nN, nO>> \in
         (0..(IacHighCap + MaxOver)) \X (0..(IacMediumCap + MaxOver))
         \X (0..(IacLowCap + MaxOver)) \X (0..1)}
    \cup {Document(<<Run(Results(Mixed(nE, nW, nN, nO, 0)))>>) :
            <<nE, nW, nN, nO>> \in
              (0..(IacHighCap + MaxOver)) \X (0..(IacMediumCap + MaxOver))
              \X (0..(IacLowCap + MaxOver)) \X (0..1)}

(***************************************************************************)
(* Specifications: main started on each family of documents.               *)
(***************************************************************************)
InitRest ==
    /\ outFile = NoValue
    /\ pc = "start"
    /\ trivy_fs_results = [error |-> "not parsed"]
    /\ trivy_iac_results = [error |-> "not parsed"]
    /\ report_content = NoValue
    /\ console = <<>>
    /\ exit_status = "running"

Init ==
    /\ fsFile \in PipeFiles
    /\ iacFile \in PipeFiles
    /\ outWritable \in BOOLEAN
    /\ InitRest

Spec == Init /\ [][Next]_vars

InitParse ==
    /\ fsFile \in ParseFiles
    /\ iacFile = Absent
    /\ outWritable = TRUE
    /\ InitRest

SpecParse == InitParse /\ [][Next]_vars

InitTrunc ==
    /\ \E long \in LongDocs, other \in {Absent, Json(EmptyObj)} :
         \/ fsFile = Json(long) /\ iacFile = other
         \/ fsFile = other /\ iacFile = Json(long)
    /\ outWritable = TRUE
    /\ InitRest

SpecTrunc == InitTrunc /\ [][Next]_vars

(***************************************************************************)
(* Vocabulary of the properties.                                           *)
(***************************************************************************)
FsParsed == pc \notin {"start", "parse_fs"}
ReportStepTaken == pc \in {"write", "summary", "done", "crashed"}
ReportProduced == report_content[1] = "report"
IsFailure(result) == DOMAIN result = {"error"}
SuccessKeys == {"total_vulnerabilities", "severity_distribution", "all_vulnerabilities"}

\* The result elements of a well shaped document, runs in order and
\* results in order within each run.
RECURSIVE Flatten(_, _)
Flatten(runs, i) ==
    IF i > Len(runs) THEN <<>>
    ELSE Get(runs[i], "results", List(<<>>))[2] \o Flatten(runs, i + 1)

AllResults(data) == Flatten(Get(data, "runs", List(<<>>))[2], 1)

\* How many findings of a Success (none of a Failure) have the raw level.
Count(result, level) ==
    IF IsSuccess(result)
    THEN Cardinality({i \in 1..Len(result.all_vulnerabilities) :
                        result.all_vulnerabilities[i].severity = Str(level)})
    ELSE 0

Findings(result) == IF IsSuccess(result) THEN Len(result.all_vulnerabilities) ELSE 0

SumCounts(dist) == dist["error"] + dist["warning"] + dist["note"] + dist["none"]

\* The schema of the input document, every field optional.
UriOK(al) == al[1] = "obj" /\ ("uri" \in DOMAIN al[2] => al[2]["uri"][1] = "str")
PhysicalOK(pl) ==
    pl[1] = "obj" /\ ("artifactLocation" \in DOMAIN pl[2] => UriOK(pl[2]["artifactLocation"]))
LocationOK(loc) ==
    loc[1] = "obj" /\ ("physicalLocation" \in DOMAIN loc[2] => PhysicalOK(loc[2]["physicalLocation"]))
ResultOK(r) ==
    /\ r[1] = "obj"
    /\ "level" \in DOMAIN r[2] => r[2]["level"][1] = "str"
    /\ "ruleId" \in DOMAIN r[2] => r[2]["ruleId"][1] = "str"
    /\ "message" \in DOMAIN r[2] =>
         /\ r[2]["message"][1] = "obj"
         /\ "text" \in DOMAIN r[2]["message"][2] => r[2]["message"][2]["text"][1] = "str"
    /\ "locations" \in DOMAIN r[2] =>
         /\ r[2]["locations"][1] = "list"
         /\ \A i \in 1..Len(r[2]["locations"][2]) : LocationOK(r[2]["locations"][2][i])
RunOK(run) ==
    /\ run[1] = "obj"
    /\ "results" \in DOMAIN run[2] =>
         /\ run[2]["results"][1] = "list"
         /\ \A i \in 1..Len(run[2]["results"][2]) : ResultOK(run[2]["results"][2][i])
ShapeOK(data) ==
    /\ data[1] = "obj"
    /\ "runs" \in DOMAIN data[2] =>
         /\ data[2]["runs"][1] = "list"
         /\ \A i \in 1..Len(data[2]["runs"][2]) : RunOK(data[2]["runs"][2][i])

(***************************************************************************)
(* C1.  A result whose raw level is none of "error", "warning", "note",    *)
(* "none" does not fail the parse: the parse of a document that is well    *)
(* formed apart from its level values is a Success, each finding has one   *)
(* of the four severities, and every result of another level is a finding  *)
(* counted under NONE.                                                     *)
(***************************************************************************)
C1_UnknownLevelIsNone ==
    (FsParsed /\ fsFile.kind = "json" /\ fsFile.data \in WalkDocs) =>
       /\ IsSuccess(trivy_fs_results)
       /\ Len(trivy_fs_results.all_vulnerabilities) = Len(AllResults(fsFile.data))
       /\ \A i \in 1..Len(trivy_fs_results.all_vulnerabilities) :
            /\ trivy_fs_results.all_vulnerabilities[i].severity
                 \in {Str(k) : k \in SeverityKeys}
            /\ Get(AllResults(fsFile.data)[i], "level", Str("none"))
                 \notin {Str("error"), Str("warning"), Str("note")}
               => trivy_fs_results.all_vulnerabilities[i].severity = Str("none")
       /\ trivy_fs_results.severity_distribution["none"]
            = Count(trivy_fs_results, "none")

(***************************************************************************)
(* C3.  A Success has the four severity keys, the counts sum to            *)
(* total_vulnerabilities, which is the number of findings, each count is   *)
(* the number of findings of that severity, and the findings are the       *)
(* document's results in document order.                                   *)
(***************************************************************************)
C3_SuccessIsConsistent ==
    (FsParsed /\ IsSuccess(trivy_fs_results)) =>
       /\ DOMAIN trivy_fs_results = SuccessKeys
       /\ DOMAIN trivy_fs_results.severity_distribution = SeverityKeys
       /\ SumCounts(trivy_fs_results.severity_distribution)
            = trivy_fs_results.total_vulnerabilities
       /\ trivy_fs_results.total_vulnerabilities
            = Len(trivy_fs_results.all_vulnerabilities)
       /\ \A k \in SeverityKeys :
            trivy_fs_results.severity_distribution[k] = Count(trivy_fs_results, k)
       /\ ShapeOK(fsFile.data) =>
            /\ Len(trivy_fs_results.all_vulnerabilities) = Len(AllResults(fsFile.data))
            /\ \A i \in 1..Len(trivy_fs_results.all_vulnerabilities) :
                 /\ trivy_fs_results.all_vulnerabilities[i].rule_id
                      = Get(AllResults(fsFile.data)[i], "ruleId", Str(Unknown))
                 /\ trivy_fs_results.all_vulnerabilities[i].severity
                      = Get(AllResults(fsFile.data)[i], "level", Str("none"))

\* Three findings of different severities, taken from both runs.
C3_Witness ==
    /\ FsParsed
    /\ IsSuccess(trivy_fs_results)
    /\ Len(trivy_fs_results.all_vulnerabilities) = 3
    /\ Len(Get(fsFile.data[2]["runs"][2][1], "results", List(<<>>))[2]) = 1
    /\ Count(trivy_fs_results, "error") = 1
    /\ Count(trivy_fs_results, "note") = 1
    /\ Count(trivy_fs_results, "none") = 1

(***************************************************************************)
(* C6.  The parser returns a Success or a Failure; for a path that names   *)
(* no document the Failure is "file not found"; for a document that is     *)
(* unreadable, undecodable or not of the expected shape it is a parse      *)
(* error, with no finding visible.                                         *)
(***************************************************************************)
C6_MalformedIsFailure ==
    FsParsed =>
       /\ IsFailure(trivy_fs_results) \/ DOMAIN trivy_fs_results = SuccessKeys
       /\ fsFile.kind = "absent" => trivy_fs_results = [error |-> FileNotFound]
       /\ \/ fsFile.kind \in {"unreadable", "undecodable"}
          \/ fsFile.kind = "json" /\ ~ShapeOK(fsFile.data)
          => /\ IsFailure(trivy_fs_results)
             /\ SubSeq(trivy_fs_results["error"], 1, Len(ParseFailed)) = ParseFailed

(***************************************************************************)
(* C7.  Every field is optional: a document in which "runs", "results",    *)
(* "level", "message", "text", "ruleId", "locations" (absent, or listing   *)
(* no location) or a nested location field is missing parses to a Success  *)
(* in which each missing field has its default.                            *)
(***************************************************************************)
OptionalFieldDocs ==
    {EmptyObj, Document(<<>>), Document(<<EmptyObj>>), Document(<<Run(<<>>)>>)}
    \cup {Document(<<Run(<<MakeObj([level |-> l, message |-> m, ruleId |-> r,
                                   locations |-> loc])>>)>>) :
            <<l, m, r, loc>> \in
              {Missing, Str("error"), Str("none")}
              \X {Missing, Obj([text |-> Str("M")]), EmptyObj}
              \X {Missing, Str("R")}
              \X {Missing, List(<<>>), List(<<EmptyObj>>),
                  List(<<Obj([physicalLocation |-> EmptyObj])>>),
                  List(<<Obj([physicalLocation |-> Obj([artifactLocation |-> EmptyObj])])>>),
                  List(<<Location(Str("f"))>>)}}

\* The reference path of the first listed location, "unknown" without one.
FirstUri(r) ==
    IF "locations" \notin DOMAIN r[2] \/ Len(r[2]["locations"][2]) = 0
    THEN Str(Unknown)
    ELSE Get(Get(Get(r[2]["locations"][2][1], "physicalLocation", EmptyObj),
                 "artifactLocation", EmptyObj), "uri", Str(Unknown))

C7_MissingFieldsDefault ==
    (FsParsed /\ fsFile.kind = "json" /\ fsFile.data \in OptionalFieldDocs) =>
       /\ IsSuccess(trivy_fs_results)
       /\ Len(trivy_fs_results.all_vulnerabilities) = Len(AllResults(fsFile.data))
       /\ \A i \in 1..Len(trivy_fs_results.all_vulnerabilities) :
            LET r == AllResults(fsFile.data)[i]
                f == trivy_fs_results.all_vulnerabilities[i]
            IN /\ f.severity = Get(r, "level", Str("none"))
               /\ f.rule_id = Get(r, "ruleId", Str(Unknown))
               /\ f.message = Get(Get(r, "message", EmptyObj), "text", Str(NoDescription))
               /\ f.location = FirstUri(r)

(***************************************************************************)
(* Properties of the report.                                               *)
(***************************************************************************)
Report == report_content[2]
Analysis == Report.ai_analysis

\* The combined counts, recounted from the findings of the Success values.
CombinedHigh == Count(trivy_fs_results, "error") + Count(trivy_iac_results, "error")
CombinedMedium == Count(trivy_fs_results, "warning") + Count(trivy_iac_results, "warning")
CombinedLow == Count(trivy_fs_results, "note") + Count(trivy_iac_results, "note")
CombinedTotal == Findings(trivy_fs_results) + Findings(trivy_iac_results)

ResultOf(cat) == IF cat = "fs" THEN trivy_fs_results ELSE trivy_iac_results
StatusOf(cat) == IF cat = "fs" THEN Report.fs_status ELSE Report.iac_status
Other(cat) == IF cat = "fs" THEN "iac" ELSE "fs"

\* The lines of the analysis that belong to a category section.
CategoryPart(cat) ==
    SelectSeq(Analysis, LAMBDA line : "cat" \in DOMAIN line /\ line.cat = cat)

\* The lines of one severity sub-list of a category section.
TierPart(cat, sev) ==
    SelectSeq(CategoryPart(cat), LAMBDA line : "sev" \in DOMAIN line /\ line.sev = sev)

(***************************************************************************)
(* C2.  The verdict of the report is FAIL exactly when the combined HIGH   *)
(* count, the number of "error" findings of the Success categories, is     *)
(* greater than 0, and PASS otherwise, whatever the other counts are.      *)
(***************************************************************************)
C2_VerdictIsHighOnly ==
    ReportProduced =>
       /\ Report.overall_status \in {"PASS", "FAIL"}
       /\ Report.overall_status = "FAIL" <=> CombinedHigh > 0

\* A failing report and the scan with findings of every other severity.
C2_Witness ==
    /\ pc = "done"
    /\ Report.overall_status = "FAIL"
    /\ CombinedMedium > 0
    /\ CombinedLow > 0
    /\ Count(trivy_fs_results, "error") > 0
    /\ Count(trivy_iac_results, "error") > 0

(***************************************************************************)
(* C9.  The analysis has exactly one risk heading: DANGER when the         *)
(* combined HIGH count is positive, whatever the MEDIUM count; otherwise   *)
(* CAUTION when the combined MEDIUM count is positive; otherwise HEALTHY.  *)
(* The tier is DANGER exactly when the verdict is FAIL.                    *)
(***************************************************************************)
RiskHeadings == SelectSeq(Analysis, LAMBDA line : line.kind = "risk")

C9_RiskTierPriority ==
    ReportProduced =>
       /\ Len(RiskHeadings) = 1
       /\ RiskHeadings[1].tier =
            IF CombinedHigh > 0 THEN "DANGER"
            ELSE IF CombinedMedium > 0 THEN "CAUTION"
            ELSE "HEALTHY"
       /\ RiskHeadings[1].tier = "DANGER" <=> Report.overall_status = "FAIL"

\* HIGH and MEDIUM findings together: the first rule of the order decides.
C9_Witness ==
    /\ pc = "done"
    /\ CombinedHigh > 0
    /\ CombinedMedium > 0
    /\ RiskHeadings[1].tier = "DANGER"

(***************************************************************************)
(* C10.  A Failure category's status block states the failure reason and   *)
(* the analysis has no section for it; a Success category without findings *)
(* is reported as completed with zero counts and has no section either.    *)
(* Both add 0 to the combined total.  With both documents absent, or both  *)
(* present without results, the report is produced with total 0 and        *)
(* verdict PASS.                                                           *)
(***************************************************************************)
NoResults(file) ==
    file.kind = "json" /\ ShapeOK(file.data) /\ Len(AllResults(file.data)) = 0

C10_AbsentAndEmpty ==
    /\ ReportProduced =>
         \A cat \in {"fs", "iac"} :
            /\ IsFailure(ResultOf(cat)) =>
                 /\ StatusOf(cat) = <<[kind |-> "failed", reason |-> ResultOf(cat)["error"]]>>
                 /\ CategoryPart(cat) = <<>>
                 /\ Report.total_vulns = Findings(ResultOf(Other(cat)))
            /\ IsSuccess(ResultOf(cat)) /\ Findings(ResultOf(cat)) = 0 =>
                 /\ StatusOf(cat) = <<[kind |-> "completed"],
                                      [kind |-> "found", vulns |-> 0, high |-> 0,
                                       medium |-> 0, low |-> 0]>>
                 /\ CategoryPart(cat) = <<>>
                 /\ Report.total_vulns = Findings(ResultOf(Other(cat)))
    /\ ReportStepTaken /\ fsFile = Absent /\ iacFile = Absent =>
         /\ ReportProduced
         /\ Report.total_vulns = 0
         /\ Report.overall_status = "PASS"
         /\ Report.fs_status = <<[kind |-> "failed", reason |-> FileNotFound]>>
         /\ Report.iac_status = <<[kind |-> "failed", reason |-> FileNotFound]>>
    /\ ReportStepTaken /\ NoResults(fsFile) /\ NoResults(iacFile) =>
         /\ ReportProduced
         /\ Report.total_vulns = 0
         /\ Report.overall_status = "PASS"
         /\ Report.fs_status[1].kind = "completed"
         /\ Report.iac_status[1].kind = "completed"

\* One document absent, the other present without results.
C10_Witness ==
    /\ pc = "done"
    /\ fsFile = Absent
    /\ NoResults(iacFile)
    /\ Report.total_vulns = 0

(***************************************************************************)
(* C5.  The combined HIGH, MEDIUM and LOW counts and the combined total    *)
(* are the sums over the two categories, a Failure adding zero; a Failure  *)
(* in one category does not keep the report from being produced, and the   *)
(* report then has the counts and the narration of the other category.     *)
(***************************************************************************)
C5_FailureAddsZero ==
    ReportStepTaken =>
       /\ ReportProduced =>
            /\ Report.total_high = CombinedHigh
            /\ Report.total_medium = CombinedMedium
            /\ Report.total_low = CombinedLow
            /\ Report.total_vulns = CombinedTotal
       /\ \A cat \in {"fs", "iac"} :
            IsFailure(ResultOf(cat)) =>
               /\ ReportProduced
               /\ Report.total_vulns = Findings(ResultOf(Other(cat)))
               /\ Report.total_high = Count(ResultOf(Other(cat)), "error")
               /\ Findings(ResultOf(Other(cat))) > 0 =>
                    /\ Len(CategoryPart(Other(cat))) > 0
                    /\ CategoryPart(Other(cat))[1].n = Findings(ResultOf(Other(cat)))

(***************************************************************************)
(* C8.  main runs to completion whenever the output file is writable: it   *)
(* does not end in an uncaught exception, and it ends with the report in   *)
(* the output file; the completion line and the combined total are printed *)
(* only after the write; the process signals failure only when the output  *)
(* file cannot be written.                                                 *)
(***************************************************************************)
Printed(kind) == \E i \in 1..Len(console) : console[i].kind = kind

C8_FailsOnlyOnWrite ==
    /\ exit_status = "failure" => ~outWritable
    /\ pc = "crashed" => ~outWritable
    /\ Printed("completed") \/ Printed("total") =>
         /\ ReportProduced
         /\ outFile = report_content
    /\ pc = "done" =>
         /\ exit_status = "success"
         /\ outFile = report_content
         /\ ReportProduced
         /\ \E i \in 1..Len(console) :
              console[i] = [kind |-> "total", n |-> CombinedTotal]

(***************************************************************************)
(* C4.  Truncation: a tier with k findings and cap c (filesystem 5, 5, 3;  *)
(* infrastructure 8, 5, 5 for HIGH, MEDIUM, LOW) is narrated as its        *)
(* heading, the first min(k, c) findings of the tier in input order, one   *)
(* line giving k - c when k > c and none otherwise; a tier with no finding *)
(* has no sub-list.                                                        *)
(***************************************************************************)
StatedCap(cat, sev) ==
    IF cat = "fs"
    THEN (IF sev = "low" THEN 3 ELSE 5)
    ELSE (IF sev = "high" THEN 8 ELSE 5)

RawLevel(sev) ==
    IF sev = "high" THEN "error" ELSE IF sev = "medium" THEN "warning" ELSE "note"

\* The findings of a tier, in input order.
TierFindings(cat, sev) ==
    SelectSeq(ResultOf(cat).all_vulnerabilities,
              LAMBDA f : f.severity = Str(RawLevel(sev)))

Narrated(cat) == IsSuccess(ResultOf(cat)) /\ Findings(ResultOf(cat)) > 0

StatedTierPart(cat, sev) ==
    LET tier == TierFindings(cat, sev)
        k == Len(tier)
        c == StatedCap(cat, sev)
    IN IF k = 0 THEN <<>>
       ELSE <<[kind |-> "tier", cat |-> cat, sev |-> sev, n |-> k]>>
            \o [i \in 1..(IF k > c THEN c ELSE k) |->
                  [kind |-> "entry", cat |-> cat, sev |-> sev,
                   rule_id |-> tier[i].rule_id, message |-> tier[i].message]]
            \o (IF k > c
                THEN <<[kind |-> "more", cat |-> cat, sev |-> sev, n |-> k - c]>>
                ELSE <<>>)
            \o <<[kind |-> "blank", cat |-> cat, sev |-> sev]>>

C4_TruncationLaw ==
    ReportProduced =>
       \A cat \in {"fs", "iac"} :
          IF Narrated(cat)
          THEN \A sev \in {"high", "medium", "low"} :
                 TierPart(cat, sev) = StatedTierPart(cat, sev)
          ELSE CategoryPart(cat) = <<>>

\* Every infrastructure tier over its cap, taking turns in the document.
C4_Witness ==
    /\ pc = "done"
    /\ Narrated("iac")
    /\ Len(TierFindings("iac", "high")) = 9
    /\ Len(TierFindings("iac", "medium")) = 6
    /\ Len(TierFindings("iac", "low")) = 6
    /\ TierFindings("iac", "high")[2].rule_id # Str("R2")
    /\ \E i \in 1..Len(Analysis) :
         Analysis[i] = [kind |-> "more", cat |-> "iac", sev |-> "high", n |-> 1]

====
